---- MODULE Spec2Model ----
(***************************************************************************)
(* Model of src/runtime/runtime64_specific.cpp: the native support layer   *)
(* of the Skip runtime (process bootstrap, argument access, the            *)
(* thread-local exception slot, line input from std::cin, and the print    *)
(* routines).                                                              *)
(*                                                                         *)
(* Every exported function is an action or, where it touches state shared  *)
(* between threads more than once (std::cin, stdout, the heap), a chain of *)
(* actions driven by the calling thread's program counter th[t].pc.        *)
(* free_size (lines 61-63) releases memory owned by the compiled runtime,  *)
(* which is no part of this layer's state.                                 *)
(*                                                                         *)
(* The variables marked "history" record what happened and are read by the *)
(* properties only; no action's guard or effect on the program's state     *)
(* depends on them.                                                        *)
(***************************************************************************)
EXTENDS Integers, Sequences, FiniteSets, TLC

VARIABLES
  mainPc,      \* position of main(): "start", "stored", "initialized", "running"
  hostArgs,    \* the arguments the host passed, as byte strings (no terminator)
  pargv,       \* main's parameter: the NUL-terminated buffers of hostArgs
  argc, argv,  \* the static globals of lines 65-66
  charSigned,  \* whether plain char is signed in this build
  exn,         \* thread_local void* exn, per thread
  lineBuffer,  \* thread_local std::string lineBuffer, per thread
  cin,         \* std::cin: unread bytes and the eofbit/failbit/badbit flags
  out,         \* bytes received by stdout and stderr
  outFault,    \* the streams whose writes currently fail
  heap,        \* per thread: host buffers it malloc'ed and has not freed
  badFree,     \* a free() of a buffer that was not live has happened
  crashed,     \* the process died (malloc returned NULL and was written to)
  th,          \* per thread: the frame of the call in progress
  ret,         \* per thread: what its last completed call returned
  budget,      \* calls the compiled program may still start
  input,       \* history: standard input as it was at process start
  lastSave,    \* history: per thread, <<e>> for the last SKIP_saveExn(e), else <<>>
  lastRead,    \* history: per thread, the bytes its last getline took from cin
  readSeq,     \* history: number of SKIP_read_line_fill calls started
  readers      \* history: threads that started a SKIP_read_line_fill

bootVars == <<hostArgs, pargv, charSigned, input>>
argVars == <<argc, argv>>
exnVars == <<exn, lastSave>>
readVars == <<lineBuffer, cin, lastRead, readSeq, readers>>
printVars == <<out, outFault, heap, badFree, crashed>>
vars == <<mainPc, hostArgs, pargv, argc, argv, charSigned, exn, lineBuffer,
          cin, out, outFault, heap, badFree, crashed, th, ret, budget, input,
          lastSave, lastRead, readSeq, readers>>

----------------------------------------------------------------------------
(* Bounds of the model                                                     *)

NThreads == 2
MaxPtr == 2
MaxLines == 2
MaxArgs == 2
MaxStr == 2
MaxCalls == 1
MaxExnCalls == 3
MaxReadCalls == 2
MaxPrintCalls == 1

Threads == 1..NThreads
Ptrs == 0..MaxPtr

----------------------------------------------------------------------------
(* Values                                                                  *)

NUL == 0
NL == 10

(* bytes of the runtime strings given to the print routines, and character
   codes given to SKIP_print_char (one of them above 255) *)
StrBytes == {NUL, 65}
CharCodes == {65, 321}

RECURSIVE SeqsUpTo(_, _)
SeqsUpTo(S, n) ==
  IF n = 0 THEN {<<>>}
  ELSE LET shorter == SeqsUpTo(S, n - 1)
       IN  shorter \cup {Append(s, b) : s \in {x \in shorter : Len(x) = n - 1}, b \in S}

(* uint32_t, kept as two 16-bit halves *)
IntToU32(x) ==
  IF x >= 0 THEN [hi |-> x \div 65536, lo |-> x % 65536]
  ELSE [hi |-> 65535 - ((-x - 1) \div 65536), lo |-> 65535 - ((-x - 1) % 65536)]

(* conversion of a char holding byte c to uint32_t *)
CharToU32(c, signed) == IF signed /\ c >= 128 THEN IntToU32(c - 256) ELSE IntToU32(c)

(* strlen: the number of bytes before the first NUL of a terminated buffer *)
StrLen(buf) == CHOOSE n \in 0..(Len(buf) - 1) :
                 buf[n + 1] = NUL /\ \A k \in 1..n : buf[k] # NUL

----------------------------------------------------------------------------
(* Frames and results                                                      *)

IdleFrame == [pc |-> "idle", op |-> "none", descr |-> "stdout", str |-> <<>>,
              buffer |-> <<>>, buf |-> "none", wrOut |-> <<>>, wrErr |-> <<>>,
              ok |-> TRUE, exh |-> FALSE, seq |-> 0, extracted |-> 0]

NoRet == [op |-> "none", exc |-> FALSE, sig |-> "none", u32 |-> IntToU32(0),
          ptr |-> 0, arg |-> 0, str |-> <<>>, wrOut |-> <<>>, wrErr |-> <<>>,
          ok |-> TRUE, exh |-> FALSE, seq |-> 0]

Running == mainPc = "running" /\ ~crashed

(* a call that changes the layer's state draws on the budget; a call that
   only reads (SKIP_getExn, SKIP_getArgc, SKIP_getArgN, SKIP_read_line_get)
   may always start *)
CanCall(t) == Running /\ th[t].pc = "idle" /\ budget > 0
CanRead(t) == Running /\ th[t].pc = "idle"

----------------------------------------------------------------------------
(* Process start                                                           *)

InitWith(argSet, inSet, signSet, calls) ==
  /\ mainPc = "start"
  /\ hostArgs \in argSet
  /\ pargv = [i \in 1..Len(hostArgs) |-> hostArgs[i] \o <<NUL>>]
  /\ argc = 0
  /\ argv = <<>>
  /\ charSigned \in signSet
  /\ exn = [t \in Threads |-> 0]
  /\ lineBuffer = [t \in Threads |-> <<>>]
  /\ input \in inSet
  /\ cin = [data |-> input, eof |-> FALSE, fail |-> FALSE, bad |-> FALSE]
  /\ out = [d \in {"stdout", "stderr"} |-> <<>>]
  /\ outFault = {}
  /\ heap = [t \in Threads |-> 0]
  /\ badFree = FALSE
  /\ crashed = FALSE
  /\ th = [t \in Threads |-> IdleFrame]
  /\ ret = [t \in Threads |-> NoRet]
  /\ budget = calls
  /\ lastSave = [t \in Threads |-> <<>>]
  /\ lastRead = [t \in Threads |-> [ok |-> FALSE, line |-> <<>>]]
  /\ readSeq = 0
  /\ readers = {}

(* mutant: the vector is not stored *)
StoreArgsCountOnly(v) == [count |-> Len(v), vector |-> <<>>]

(* main, lines 78-79: argc = pargc; argv = pargv *)
StoreArgs(v) == [count |-> Len(v), vector |-> v]

MainStore ==
  /\ mainPc = "start"
  /\ argc' = StoreArgs(pargv).count
  /\ argv' = StoreArgs(pargv).vector
  /\ mainPc' = "stored"
  /\ UNCHANGED <<bootVars, exnVars, readVars, printVars, th, ret, budget>>

(* main, line 80: SKIP_initializeSkip() *)
MainInit ==
  /\ mainPc = "stored"
  /\ mainPc' = "initialized"
  /\ UNCHANGED <<bootVars, argVars, exnVars, readVars, printVars, th, ret, budget>>

(* main, line 81: skip_main() is entered *)
MainEntry ==
  /\ mainPc = "initialized"
  /\ mainPc' = "running"
  /\ UNCHANGED <<bootVars, argVars, exnVars, readVars, printVars, th, ret, budget>>

Return(t, r) ==
  /\ ret' = [ret EXCEPT ![t] = r]
  /\ th' = [th EXCEPT ![t] = IdleFrame]

----------------------------------------------------------------------------
(* Exception slot                                                          *)

(* mutant: the slot is one global instead of thread_local *)
SaveExnGlobal(slots, t, e) == [u \in DOMAIN slots |-> e]

(* line 58, on the thread_local of line 51 *)
SaveExn(slots, t, e) == [slots EXCEPT ![t] = e]

(* line 54 *)
GetExn(slots, t) == slots[t]

SKIP_saveExn(t, e) ==
  /\ CanCall(t)
  /\ exn' = SaveExn(exn, t, e)
  /\ lastSave' = [lastSave EXCEPT ![t] = <<e>>]
  /\ Return(t, [NoRet EXCEPT !.op = "SKIP_saveExn", !.arg = e])
  /\ budget' = budget - 1
  /\ UNCHANGED <<mainPc, bootVars, argVars, readVars, printVars>>

SKIP_getExn(t) ==
  /\ CanRead(t)
  /\ Return(t, [NoRet EXCEPT !.op = "SKIP_getExn", !.ptr = GetExn(exn, t)])
  /\ UNCHANGED <<budget, mainPc, bootVars, argVars, exnVars, readVars, printVars>>

----------------------------------------------------------------------------
(* Arguments                                                               *)

(* the runtime's string constructor: a string holding buffer[0..size) *)
sk_string_create(buffer, size) == SubSeq(buffer, 1, size)

GetArgc(count) == IntToU32(count - 1)

(* mutant: line 73 is missing, argv[n] is returned *)
ArgSlotNoSkip(n) == n + 1

(* n = n + 1; argv[n] (argv is 0-based in the code, 1-based here) *)
ArgSlot(n) == (n + 1) + 1

GetArgN(vector, n) ==
  sk_string_create(vector[ArgSlot(n)], StrLen(vector[ArgSlot(n)]))

SKIP_getArgc(t) ==
  /\ CanRead(t)
  /\ Return(t, [NoRet EXCEPT !.op = "SKIP_getArgc", !.u32 = GetArgc(argc)])
  /\ UNCHANGED <<budget, mainPc, bootVars, argVars, exnVars, readVars, printVars>>

(* the caller keeps n below SKIP_getArgc(); another n reads outside argv *)
SKIP_getArgN(t, n) ==
  /\ CanRead(t)
  /\ n + 1 < argc
  /\ Return(t, [NoRet EXCEPT !.op = "SKIP_getArgN", !.arg = n, !.str = GetArgN(argv, n)])
  /\ UNCHANGED <<budget, mainPc, bootVars, argVars, exnVars, readVars, printVars>>

----------------------------------------------------------------------------
(* Line input                                                              *)

(* std::ios::good() and std::ios::fail() *)
Good(c) == ~c.eof /\ ~c.fail /\ ~c.bad

Fail(c) == c.fail \/ c.bad

(* mutant: line 41 tests bad() *)
ReadFailedBadOnly(c) == c.bad

(* what SKIP_read_line_fill tests on line 41 *)
ReadFailed(c) == Fail(c)

(* lines 33-35: the call does not return, a SkipException carrying exc
   unwinds the native frames *)
SKIP_throw(exc) == [exc |-> TRUE, sig |-> exc]

(* the end-of-stream raise of the compiled runtime: it builds the
   end-of-stream exception and leaves through SKIP_throw *)
SKIP_throw_EndOfFile == SKIP_throw("EndOfFile")

(* std::string::erase() and push_back on the calling thread's buffer *)
Erase(bufs, t) == [bufs EXCEPT ![t] = <<>>]

(* mutant: the buffer is one global instead of thread_local *)
PushBackGlobal(bufs, t, c) == [u \in DOMAIN bufs |-> Append(bufs[u], c)]

PushBack(bufs, t, c) == [bufs EXCEPT ![t] = Append(@, c)]

(* mutant: the delimiter is stored, as fgets does *)
TakeCharKeepDelim(bufs, t, c) == PushBack(bufs, t, c)

(* what std::getline does with an extracted character: the delimiter is
   dropped, any other byte is appended *)
TakeChar(bufs, t, c) == IF c = NL THEN bufs ELSE PushBack(bufs, t, c)

(* line 40, first half: std::getline builds its sentry; a stream that is not
   good() fails it (failbit), a good one has the buffer erased *)
SKIP_read_line_fill(t) ==
  /\ CanCall(t)
  /\ budget' = budget - 1
  /\ readSeq' = readSeq + 1
  /\ readers' = readers \cup {t}
  /\ lastRead' = [lastRead EXCEPT ![t] = [ok |-> FALSE, line |-> <<>>]]
  /\ LET exhausted == cin.data = <<>> \/ ~Good(cin)
         frame == [IdleFrame EXCEPT !.op = "SKIP_read_line_fill", !.exh = exhausted,
                                    !.seq = readSeq + 1]
     IN  IF Good(cin)
         THEN /\ lineBuffer' = Erase(lineBuffer, t)
              /\ cin' = cin
              /\ th' = [th EXCEPT ![t] = [frame EXCEPT !.pc = "getline"]]
         ELSE /\ lineBuffer' = lineBuffer
              /\ cin' = [cin EXCEPT !.fail = TRUE]
              /\ th' = [th EXCEPT ![t] = [frame EXCEPT !.pc = "check"]]
  /\ UNCHANGED <<mainPc, bootVars, argVars, exnVars, printVars, ret>>

(* line 40, the extraction loop, one character per step: end of data sets
   eofbit (and failbit when nothing was extracted), the delimiter is taken
   and dropped, any other byte is appended *)
getline_extract(t) ==
  /\ Running
  /\ th[t].pc = "getline"
  /\ IF cin.data = <<>>
     THEN /\ cin' = [cin EXCEPT !.eof = TRUE,
                                !.fail = @ \/ th[t].extracted = 0]
          /\ th' = [th EXCEPT ![t].pc = "check"]
          /\ UNCHANGED <<lineBuffer, lastRead>>
     ELSE /\ cin' = [cin EXCEPT !.data = Tail(@)]
          /\ lineBuffer' = TakeChar(lineBuffer, t, Head(cin.data))
          /\ IF Head(cin.data) = NL
             THEN /\ th' = [th EXCEPT ![t].pc = "check", ![t].extracted = @ + 1]
                  /\ lastRead' = lastRead
             ELSE /\ th' = [th EXCEPT ![t].extracted = @ + 1]
                  /\ lastRead' = [lastRead EXCEPT ![t].line = Append(@, Head(cin.data))]
  /\ UNCHANGED <<mainPc, bootVars, argVars, exnVars, printVars, ret, budget,
                 readSeq, readers>>

(* line 40, the extraction loop when the stream buffer throws: getline
   catches it and sets badbit *)
getline_fault(t) ==
  /\ Running
  /\ th[t].pc = "getline"
  /\ cin' = [cin EXCEPT !.bad = TRUE]
  /\ th' = [th EXCEPT ![t].pc = "check"]
  /\ UNCHANGED <<mainPc, bootVars, argVars, exnVars, printVars, ret, budget,
                 lineBuffer, lastRead, readSeq, readers>>

(* lines 41-44 *)
SKIP_read_line_fill_check(t) ==
  /\ Running
  /\ th[t].pc = "check"
  /\ IF ReadFailed(cin)
     THEN /\ Return(t, [NoRet EXCEPT !.op = "SKIP_read_line_fill", !.exh = th[t].exh,
                                     !.seq = th[t].seq,
                                     !.exc = SKIP_throw_EndOfFile.exc,
                                     !.sig = SKIP_throw_EndOfFile.sig])
          /\ lastRead' = lastRead
     ELSE /\ Return(t, [NoRet EXCEPT !.op = "SKIP_read_line_fill", !.exh = th[t].exh,
                                     !.seq = th[t].seq,
                                     !.u32 = IntToU32(Len(lineBuffer[t]))])
          /\ lastRead' = [lastRead EXCEPT ![t].ok = TRUE]
  /\ UNCHANGED <<mainPc, bootVars, argVars, exnVars, printVars, budget,
                 lineBuffer, cin, readSeq, readers>>

(* line 48: lineBuffer[i], a char, returned as uint32_t *)
ReadLineGet(bufs, t, i, signed) == CharToU32(bufs[t][i + 1], signed)

(* the caller keeps i below the count the last read returned *)
SKIP_read_line_get(t, i) ==
  /\ CanRead(t)
  /\ i < Len(lineBuffer[t])
  /\ Return(t, [NoRet EXCEPT !.op = "SKIP_read_line_get", !.arg = i,
                             !.u32 = ReadLineGet(lineBuffer, t, i, charSigned)])
  /\ UNCHANGED <<budget, mainPc, bootVars, argVars, exnVars, readVars, printVars>>

----------------------------------------------------------------------------
(* Output                                                                  *)

(* the runtime's length accessor: the byte size of a runtime string *)
SKIP_String_byteSize(str) == Len(str)

(* lines 85-88: malloc(size+1), memcpy of size bytes, terminating zero *)
HostBuffer(str) == SubSeq(str, 1, SKIP_String_byteSize(str)) \o <<NUL>>

(* line 89: what the "%s" conversion takes from the buffer *)
Formatted(buffer) == SubSeq(buffer, 1, StrLen(buffer))

(* mutant: print_string writes where SKIP_print_error does *)
DescrLineToStderr(op) == IF op = "SKIP_print_raw" THEN "stdout" ELSE "stderr"

(* the stream each routine hands to print and writes its newline to *)
Descr(op) == IF op = "SKIP_print_error" THEN "stderr" ELSE "stdout"

(* mutant: line 90 is missing *)
FreeMissing(h, t) == h

(* line 90 *)
Free(h, t) == [h EXCEPT ![t] = @ - 1]

(* a write of bytes to stream d: a failing stream takes nothing *)
StreamWrite(o, faults, d, bytes) ==
  IF d \in faults THEN o ELSE [o EXCEPT ![d] = @ \o bytes]

(* history: the bytes a step added to stream d *)
Added(d) == SubSeq(out'[d], Len(out[d]) + 1, Len(out'[d]))

Wrote(frame, d) ==
  [frame EXCEPT !.wrOut = @ \o Added("stdout"), !.wrErr = @ \o Added("stderr"),
                !.ok = @ /\ d \notin outFault]

(* SKIP_print_raw, print_string, SKIP_print_error enter print: lines 85-88 *)
print(t, op, str) ==
  /\ CanCall(t)
  /\ budget' = budget - 1
  /\ heap' = [heap EXCEPT ![t] = @ + 1]
  /\ th' = [th EXCEPT ![t] = [IdleFrame EXCEPT !.pc = "fprintf", !.op = op,
                                !.descr = Descr(op), !.str = str,
                                !.buffer = HostBuffer(str), !.buf = "live"]]
  /\ UNCHANGED <<mainPc, bootVars, argVars, exnVars, readVars, ret, out,
                 outFault, badFree, crashed>>

(* line 86 when malloc returns NULL: the copy writes through it *)
print_malloc_fails(t) ==
  /\ CanCall(t)
  /\ budget' = budget - 1
  /\ crashed' = TRUE
  /\ UNCHANGED <<mainPc, bootVars, argVars, exnVars, readVars, th, ret, out,
                 outFault, heap, badFree>>

(* line 89: fprintf(descr, "%s", buffer) *)
print_fprintf(t) ==
  /\ Running
  /\ th[t].pc = "fprintf"
  /\ out' = StreamWrite(out, outFault, th[t].descr, Formatted(th[t].buffer))
  /\ th' = [th EXCEPT ![t] = [Wrote(@, th[t].descr) EXCEPT !.pc = "free"]]
  /\ UNCHANGED <<mainPc, bootVars, argVars, exnVars, readVars, ret, budget,
                 outFault, heap, badFree, crashed>>

PrintResult(frame) ==
  [NoRet EXCEPT !.op = frame.op, !.str = frame.str, !.wrOut = frame.wrOut,
                !.wrErr = frame.wrErr, !.ok = frame.ok]

(* line 90, and for SKIP_print_raw the return *)
print_free(t) ==
  /\ Running
  /\ th[t].pc = "free"
  /\ heap' = Free(heap, t)
  /\ badFree' = (badFree \/ th[t].buf # "live")
  /\ IF th[t].op = "SKIP_print_raw"
     THEN Return(t, PrintResult(th[t]))
     ELSE /\ th' = [th EXCEPT ![t].pc = "newline", ![t].buf = "freed"]
          /\ ret' = ret
  /\ UNCHANGED <<mainPc, bootVars, argVars, exnVars, readVars, budget, out,
                 outFault, crashed>>

(* lines 99 and 104: the newline of print_string and SKIP_print_error *)
print_newline(t) ==
  /\ Running
  /\ th[t].pc = "newline"
  /\ out' = StreamWrite(out, outFault, Descr(th[t].op), <<NL>>)
  /\ Return(t, PrintResult(Wrote(th[t], Descr(th[t].op))))
  /\ UNCHANGED <<mainPc, bootVars, argVars, exnVars, readVars, budget,
                 outFault, heap, badFree, crashed>>

(* line 30: printf("%c", x) writes x converted to unsigned char *)
SKIP_print_char(t, x) ==
  /\ CanCall(t)
  /\ budget' = budget - 1
  /\ out' = StreamWrite(out, outFault, "stdout", <<x % 256>>)
  /\ Return(t, [NoRet EXCEPT !.op = "SKIP_print_char", !.arg = x,
                             !.wrOut = Added("stdout"),
                             !.ok = "stdout" \notin outFault])
  /\ UNCHANGED <<mainPc, bootVars, argVars, exnVars, readVars, outFault, heap,
                 badFree, crashed>>

(* the host: writes to stream d start to fail (a closed pipe, a full disk) *)
StreamBreaks(d) ==
  /\ Running
  /\ d \notin outFault
  /\ outFault' = outFault \cup {d}
  /\ UNCHANGED <<mainPc, bootVars, argVars, exnVars, readVars, th, ret, budget,
                 out, heap, badFree, crashed>>

----------------------------------------------------------------------------
(* Specifications                                                          *)

PrintOps == {"SKIP_print_raw", "print_string", "SKIP_print_error"}
Strings == SeqsUpTo(StrBytes, MaxStr)

(* standard inputs: up to MaxLines terminated lines, then nothing or an
   unterminated rest *)
LineSamples == {<<>>, <<200>>}
LineIndexes == {0, 1}
RECURSIVE Join(_)
Join(ls) == IF ls = <<>> THEN <<>> ELSE (Head(ls) \o <<NL>>) \o Join(Tail(ls))
Inputs == {Join(ls) \o rest : ls \in SeqsUpTo(LineSamples, MaxLines),
                              rest \in {<<>>, <<65, 200>>}}

(* argument vectors: the program's own path, then up to MaxArgs arguments;
   a host may also start a process with no argument at all *)
ArgSamples == {<<>>, <<65>>, <<200, 65>>}
ArgVectors == SeqsUpTo(ArgSamples, MaxArgs + 1)

Boot == MainStore \/ MainInit \/ MainEntry

ExnNext(P) ==
  \/ \E t \in Threads, e \in P : SKIP_saveExn(t, e)
  \/ \E t \in Threads : SKIP_getExn(t)

ArgNext ==
  \/ \E t \in Threads : SKIP_getArgc(t)
  \/ \E t \in Threads, n \in 0..MaxArgs : SKIP_getArgN(t, n)

ReadNext ==
  \/ \E t \in Threads : SKIP_read_line_fill(t)
  \/ \E t \in Threads : getline_extract(t)
  \/ \E t \in Threads : getline_fault(t)
  \/ \E t \in Threads : SKIP_read_line_fill_check(t)
  \/ \E t \in Threads, i \in LineIndexes : SKIP_read_line_get(t, i)

PrintNext(S) ==
  \/ \E t \in Threads, op \in PrintOps, str \in S : print(t, op, str)
  \/ \E t \in Threads : print_malloc_fails(t)
  \/ \E t \in Threads : print_fprintf(t)
  \/ \E t \in Threads : print_free(t)
  \/ \E t \in Threads : print_newline(t)
  \/ \E t \in Threads, x \in CharCodes : SKIP_print_char(t, x)
  \/ \E d \in {"stdout", "stderr"} : StreamBreaks(d)

(* the whole layer *)
Init == InitWith({<<<<65>>>>, <<<<65>>, <<200>>>>}, {<<65, NL>>}, {TRUE}, MaxCalls)
Next == Boot \/ ExnNext({1}) \/ ArgNext \/ ReadNext \/ PrintNext({<<65>>})
Spec == Init /\ [][Next]_vars

(* the exception slot, every pointer value *)
InitExn == InitWith({<<<<65>>>>}, {<<>>}, {TRUE}, MaxExnCalls)
NextExn == Boot \/ ExnNext(Ptrs)
SpecExn == InitExn /\ [][NextExn]_vars

(* the argument accessors, every argument vector *)
InitArgs == InitWith(ArgVectors, {<<>>}, {TRUE}, 0)
NextArgs == Boot \/ ArgNext
SpecArgs == InitArgs /\ [][NextArgs]_vars

(* line input, every standard input *)
InitRead == InitWith({<<<<65>>>>}, Inputs, BOOLEAN, MaxReadCalls)
NextRead == Boot \/ ReadNext
SpecRead == InitRead /\ [][NextRead]_vars

(* output, every runtime string *)
InitPrint == InitWith({<<<<65>>>>}, {<<>>}, {TRUE}, MaxPrintCalls)
NextPrint == Boot \/ PrintNext(Strings)
SpecPrint == InitPrint /\ [][NextPrint]_vars

----------------------------------------------------------------------------
(* The exception slot (C1)                                                 *)

(* C1: on every thread T, SKIP_getExn returns the value given to the most
   recent SKIP_saveExn on T, whatever gets on T and saves on other threads
   came in between; and a thread's slot changes only in a save made on that
   thread (a get changes no slot, a save changes no other thread's slot). *)
C1_GetReturnsLastSave ==
  /\ [](\A t \in Threads :
          (ret[t].op = "SKIP_getExn" /\ lastSave[t] # <<>>) => ret[t].ptr = lastSave[t][1])
  /\ [][\A t \in Threads :
          exn'[t] # exn[t] => (ret'[t].op = "SKIP_saveExn" /\ exn'[t] = ret'[t].arg
                               /\ \A u \in Threads \ {t} : exn'[u] = exn[u])]_vars

(* thread 1 saved 1 and thread 2 saved 2; a get on thread 1 answered 1 *)
C1_Witness ==
  /\ lastSave[1] = <<1>> /\ lastSave[2] = <<2>>
  /\ ret[1].op = "SKIP_getExn" /\ ret[1].ptr = 1
  /\ ret[2].op = "SKIP_saveExn"

----------------------------------------------------------------------------
(* Line input (C2, C3, C8, C10)                                            *)

(* the terminated lines of a byte sequence, terminators stripped *)
RECURSIVE LinesOf(_, _)
LinesOf(bytes, cur) ==
  IF bytes = <<>> THEN <<>>
  ELSE IF Head(bytes) = NL THEN <<cur>> \o LinesOf(Tail(bytes), <<>>)
       ELSE LinesOf(Tail(bytes), Append(cur, Head(bytes)))

Terminated(bytes) == bytes = <<>> \/ bytes[Len(bytes)] = NL

(* C2: when standard input is k lines, each ended by its terminator, and one
   thread alone reads it without a stream fault, its i-th SKIP_read_line_fill
   (i <= k) raises nothing and returns the byte length of the i-th line,
   and the buffer then holds exactly that line. *)
C2_LinesInOrder ==
  \A t \in Threads :
    (/\ ret[t].op = "SKIP_read_line_fill"
     /\ readers = {t}
     /\ ~cin.bad
     /\ Terminated(input)
     /\ ret[t].seq <= Len(LinesOf(input, <<>>)))
    => LET line == LinesOf(input, <<>>)[ret[t].seq]
       IN  /\ ~ret[t].exc
           /\ ret[t].u32 = IntToU32(Len(line))
           /\ th[t].pc = "idle" => lineBuffer[t] = line

(* an empty line, then a line of one byte: the second call returned 1 and
   the buffer holds the second line *)
C2_Witness ==
  /\ input = <<NL, 200, NL>>
  /\ readers = {1}
  /\ ret[1].op = "SKIP_read_line_fill" /\ ret[1].seq = 2 /\ ~ret[1].exc
  /\ ret[1].u32 = IntToU32(1)
  /\ lineBuffer[1] = <<200>>

(* C3: a SKIP_read_line_fill called when standard input is exhausted or
   faulted (no unread byte, or eofbit, failbit or badbit set) raises the
   end-of-stream exception and returns no count; so the first call on an
   input of zero bytes raises. *)
C3_ExhaustedRaises ==
  \A t \in Threads :
    (ret[t].op = "SKIP_read_line_fill" /\ ret[t].exh)
    => (ret[t].exc /\ ret[t].sig = "EndOfFile")

(* the very first call on an input of zero bytes raised *)
C3_Witness ==
  /\ input = <<>>
  /\ readSeq = 1
  /\ ret[1].op = "SKIP_read_line_fill" /\ ret[1].seq = 1 /\ ret[1].exh /\ ret[1].exc

(* C8: a thread's lineBuffer changes only in a step of a SKIP_read_line_fill
   made on that thread, and such a step changes no other thread's buffer;
   from a successful read on T until T's next read the buffer holds the
   bytes T took from the stream, and SKIP_read_line_get(i) on T answers
   with the i-th of them (in the low eight bits), whatever other threads
   read in between. *)
C8_BufferPerThread ==
  /\ [](\A t \in Threads :
          /\ lastRead[t].ok => lineBuffer[t] = lastRead[t].line
          /\ (ret[t].op = "SKIP_read_line_get" /\ lastRead[t].ok)
             => ret[t].u32.lo % 256 = lastRead[t].line[ret[t].arg + 1])
  /\ [][\A t \in Threads :
          lineBuffer'[t] # lineBuffer[t]
          => /\ th[t].op = "SKIP_read_line_fill" \/ th'[t].op = "SKIP_read_line_fill"
             /\ \A u \in Threads \ {t} :
                  /\ lineBuffer'[u] = lineBuffer[u]
                  /\ lastRead'[u] = lastRead[u]
                  /\ th'[u] = th[u]]_vars

(* thread 1 read the first line, thread 2 the unterminated rest, and a
   SKIP_read_line_get(0) on each answers from its own line *)
C8_Witness ==
  /\ input = <<200, NL, 65, 200>>
  /\ lastRead[1] = [ok |-> TRUE, line |-> <<200>>]
  /\ lastRead[2] = [ok |-> TRUE, line |-> <<65, 200>>]
  /\ ret[1].op = "SKIP_read_line_get" /\ ret[1].arg = 0 /\ ret[1].u32.lo % 256 = 200
  /\ ret[2].op = "SKIP_read_line_get" /\ ret[2].arg = 0 /\ ret[2].u32 = IntToU32(65)

(* C10: after a successful read, SKIP_read_line_get(i) with i below the
   count returns the value of the i-th byte of the line just read, an
   integer in 0..255. *)
C10_ByteValue ==
  \A t \in Threads :
    (ret[t].op = "SKIP_read_line_get" /\ lastRead[t].ok)
    => ret[t].u32 = IntToU32(lastRead[t].line[ret[t].arg + 1])

----------------------------------------------------------------------------
(* Arguments (C4)                                                          *)

(* C4: when the host passed n >= 1 arguments, SKIP_getArgc returns n - 1,
   and SKIP_getArgN(i), i < n - 1, returns a runtime string whose content
   is the host's argument i + 1; argument 0 is never returned. *)
C4_ArgsSkipProgram ==
  \A t \in Threads :
    /\ (ret[t].op = "SKIP_getArgc" /\ Len(hostArgs) >= 1)
       => ret[t].u32 = IntToU32(Len(hostArgs) - 1)
    /\ ret[t].op = "SKIP_getArgN"
       => /\ ret[t].arg + 2 <= Len(hostArgs)
          /\ ret[t].str = hostArgs[ret[t].arg + 2]

(* three arguments: the count is 2 and argument 0 is the host's second *)
C4_Witness ==
  /\ hostArgs = <<<<65>>, <<200, 65>>, <<>>>>
  /\ ret[1].op = "SKIP_getArgc" /\ ret[1].u32 = IntToU32(2)
  /\ ret[2].op = "SKIP_getArgN" /\ ret[2].arg = 0 /\ ret[2].str = <<200, 65>>

----------------------------------------------------------------------------
(* Output (C5, C6, C7)                                                     *)

(* C5: SKIP_print_raw(s), its write succeeding, appends to standard output
   exactly the bytes of s, whatever their values, and nothing to the error
   stream. *)
C5_RawWritesEveryByte ==
  \A t \in Threads :
    (ret[t].op = "SKIP_print_raw" /\ ret[t].ok)
    => (ret[t].wrOut = ret[t].str /\ ret[t].wrErr = <<>>)

(* C6: print_string(s), its writes succeeding, appends to standard output
   what SKIP_print_raw(s) appends, then one newline byte; for the empty
   string that is the newline alone; it never writes to the error stream. *)
C6_LineIsRawThenNewline ==
  \A t \in Threads :
    ret[t].op = "print_string"
    => /\ ret[t].wrErr = <<>>
       /\ ret[t].ok => ret[t].wrOut = Formatted(HostBuffer(ret[t].str)) \o <<NL>>
       /\ (ret[t].ok /\ ret[t].str = <<>>) => ret[t].wrOut = <<NL>>

(* print_string of the empty string put one newline on standard output *)
C6_Witness ==
  /\ ret[1].op = "print_string" /\ ret[1].str = <<>> /\ ret[1].ok
  /\ out = [d \in {"stdout", "stderr"} |-> IF d = "stdout" THEN <<NL>> ELSE <<>>]

(* C7: a thread holds a host buffer only between the malloc and the free of
   print: none is live once print has returned, whether or not its write
   failed, and no buffer is freed twice. *)
C7_BuffersReleased ==
  /\ ~badFree
  /\ \A t \in Threads :
       heap[t] = (IF th[t].pc \in {"fprintf", "free"} THEN 1 ELSE 0)

(* SKIP_print_error returned after its writes failed, and no buffer is live *)
C7_Witness ==
  /\ ret[1].op = "SKIP_print_error" /\ ~ret[1].ok /\ ret[1].wrErr = <<>>
  /\ th[1].pc = "idle"
  /\ \A t \in Threads : heap[t] = 0

----------------------------------------------------------------------------
(* Bootstrap (C9)                                                          *)

(* C9: main stores the argument vector, then calls the runtime's
   initialization, then the entry point, in that order; from the store on
   argc and argv are the host's vector, no call of the layer is made before
   the entry point runs, and no step changes argc or argv afterwards. *)
C9_ArgsFixedBeforeEntry ==
  /\ [](mainPc \in {"stored", "initialized", "running"}
          => /\ argc = Len(hostArgs)
             /\ argv = [i \in 1..Len(hostArgs) |-> hostArgs[i] \o <<NUL>>])
  /\ [](mainPc # "running" => \A t \in Threads : ret[t] = NoRet /\ th[t] = IdleFrame)
  /\ [][mainPc' # mainPc
          => <<mainPc, mainPc'>> \in {<<"start", "stored">>,
                                      <<"stored", "initialized">>,
                                      <<"initialized", "running">>}]_vars
  /\ [][mainPc # "start" => (argc' = argc /\ argv' = argv)]_vars

(* the entry point runs, calls of the layer have returned, and the stored
   vector is the host's *)
C9_Witness ==
  /\ mainPc = "running"
  /\ budget = 0
  /\ ret[1].op = "print_string" /\ ret[2].op = "SKIP_getArgN"
  /\ argc = 2 /\ argv = pargv

====
